---- MODULE Spec2Model ----
(***************************************************************************)
(* State-machine model of the MIPS simulator of src/proj2.py:              *)
(* RegisterFile, Memory and CPU (fetch / decode / execute / run), driven   *)
(* by a caller that loads words, writes registers and runs cycles; and of   *)
(* the two pipeline-stage visualizers, src/pipeline.py and src/proj1.py,   *)
(* each driven by a user who adds instructions and steps the pipeline.     *)
(*                                                                         *)
(* Python integers are unbounded.  A Python integer x is represented by    *)
(* four limbs <<l0, l1, l2, l3>> in base 2^16, least significant first,    *)
(* with l0, l1, l2 in 0..65535 and l3 any (signed) integer:                *)
(*     x = l0 + l1*2^16 + l2*2^32 + l3*2^48                                *)
(* which is the two's-complement view Python's bit operators use.  Every   *)
(* value the program computes (products of two 32-bit values, 32-bit       *)
(* values shifted by up to 31, a program counter moved by bounded steps)   *)
(* has a top limb far inside the checker's integer range.                  *)
(***************************************************************************)
EXTENDS Integers, Sequences, FiniteSets, TLC

\* ------------------------------------------------------------------------
\* Python integer arithmetic on limbs
\* ------------------------------------------------------------------------
Base == 65536

\* carry-normalise four arbitrary limb values
Norm(a0, a1, a2, a3) ==
  LET c0 == a0 \div Base
      t1 == a1 + c0
      c1 == t1 \div Base
      t2 == a2 + c1
      c2 == t2 \div Base
  IN  <<a0 % Base, t1 % Base, t2 % Base, a3 + c2>>

\* a small literal (|n| < 2^31) as a Python integer
FromInt(n) == Norm(n, 0, 0, 0)

\* a 32-bit literal given by its high and low half-words
Word(hi, lo) == <<lo, hi, 0, 0>>

\* the value of a Python integer known to lie in 0..2^31-1
ToNat(x) == x[1] + x[2] * Base

PyAdd(x, y) == Norm(x[1] + y[1], x[2] + y[2], x[3] + y[3], x[4] + y[4])
PySub(x, y) == Norm(x[1] - y[1], x[2] - y[2], x[3] - y[3], x[4] - y[4])

\* -x in place of ~x
PyNot_Negate(x) == PySub(<<0, 0, 0, 0>>, x)

\* ~x == -x - 1
PyNot(x) == <<Base - 1 - x[1], Base - 1 - x[2], Base - 1 - x[3], (0 - x[4]) - 1>>

\* x < y with 32-bit values read as signed (two's complement)
PyLt_Signed32(x, y) ==
  LET sx == IF x[2] >= 32768 THEN x[2] - 65536 ELSE x[2]
      sy == IF y[2] >= 32768 THEN y[2] - 65536 ELSE y[2]
  IN  IF sx # sy THEN sx < sy ELSE x[1] < y[1]

\* x < y
PyLt(x, y) ==
  IF x[4] # y[4] THEN x[4] < y[4]
  ELSE IF x[3] # y[3] THEN x[3] < y[3]
  ELSE IF x[2] # y[2] THEN x[2] < y[2]
  ELSE x[1] < y[1]

\* the masks 2^k - 1 of one limb: a & (2^k - 1) is a mod 2^k
LowMasks ==
  {0, 1, 3, 7, 15, 31, 63, 127, 255, 511, 1023, 2047, 4095, 8191, 16383,
   32767, 65535}

\* bit operators on one limb; b >= 0 (a may be the signed top limb for BitAnd)
RECURSIVE BitAnd(_, _)
BitAnd(a, b) ==
  IF b \in LowMasks THEN a % (b + 1)
  ELSE IF a = 0 THEN 0
  ELSE (a % 2) * (b % 2) + 2 * BitAnd(a \div 2, b \div 2)

RECURSIVE BitOr(_, _)
BitOr(a, b) ==
  IF a = 0 THEN b
  ELSE IF b = 0 THEN a
  ELSE (IF a % 2 = 1 \/ b % 2 = 1 THEN 1 ELSE 0) + 2 * BitOr(a \div 2, b \div 2)

RECURSIVE BitXor(_, _)
BitXor(a, b) ==
  IF a = 0 THEN b
  ELSE IF b = 0 THEN a
  ELSE (IF a % 2 # b % 2 THEN 1 ELSE 0) + 2 * BitXor(a \div 2, b \div 2)

\* x & y for y >= 0;  x | y and x ^ y for x, y >= 0
PyAnd(x, y) == <<BitAnd(x[1], y[1]), BitAnd(x[2], y[2]), BitAnd(x[3], y[3]), BitAnd(x[4], y[4])>>
PyOr(x, y)  == <<BitOr(x[1], y[1]), BitOr(x[2], y[2]), BitOr(x[3], y[3]), BitOr(x[4], y[4])>>
PyXor(x, y) == <<BitXor(x[1], y[1]), BitXor(x[2], y[2]), BitXor(x[3], y[3]), BitXor(x[4], y[4])>>

\* x << k, one whole limb at a time and then by the remaining k < 16 bits
RECURSIVE PyShl(_, _)
PyShl(x, k) ==
  IF k >= 16 THEN PyShl(<<0, x[1], x[2], x[4] * Base + x[3]>>, k - 16)
  ELSE Norm(x[1] * 2^k, x[2] * 2^k, x[3] * 2^k, x[4] * 2^k)

\* x >> k (arithmetic, rounding toward minus infinity)
RECURSIVE PyShr(_, _)
PyShr(x, k) ==
  IF k >= 16 THEN PyShr(<<x[2], x[3], x[4] % Base, x[4] \div Base>>, k - 16)
  ELSE <<(x[1] \div 2^k) + (x[2] % 2^k) * 2^(16 - k),
         (x[2] \div 2^k) + (x[3] % 2^k) * 2^(16 - k),
         (x[3] \div 2^k) + (x[4] % 2^k) * 2^(16 - k),
         x[4] \div 2^k>>

\* the product of two limbs as <<low limb, high limb>>
MulLimb(a, b) ==
  LET t == (a \div 256) * b
      u == (a % 256) * b
      s == (t % 256) * 256 + (u % Base)
  IN  <<s % Base, (t \div 256) + (u \div Base) + (s \div Base)>>

\* x * y for x, y in 0..2^32-1
PyMul(x, y) ==
  LET p00 == MulLimb(x[1], y[1])
      p01 == MulLimb(x[1], y[2])
      p10 == MulLimb(x[2], y[1])
      p11 == MulLimb(x[2], y[2])
  IN  Norm(p00[1],
           p00[2] + p01[1] + p10[1],
           p01[2] + p10[2] + p11[1],
           p11[2])

\* the least s with d * 2^s >= 2^15, for d in 1..65535
RECURSIVE NormShift(_)
NormShift(d) == IF d >= 32768 THEN 0 ELSE 1 + NormShift(2 * d)

\* x // y for x in 0..2^32-1 and y in 1..2^32-1 (schoolbook long division:
\* by one limb when y < 2^16, else one estimated quotient limb, corrected)
PyFloorDiv(x, y) ==
  IF y[2] = 0
  THEN LET d  == y[1]
           q1 == x[2] \div d
           r1 == x[2] % d
           t1 == r1 * 256 + (x[1] \div 256)
           t0 == (t1 % d) * 256 + (x[1] % 256)
       IN  <<(t1 \div d) * 256 + (t0 \div d), q1, 0, 0>>
  ELSE LET s    == NormShift(y[2])
           xs   == PyShl(x, s)
           ys   == PyShl(y, s)
           qhat == (xs[3] * Base + xs[2]) \div ys[2]
           q    == CHOOSE c \in {qhat - 2, qhat - 1, qhat} :
                     /\ c >= 0
                     /\ ~PyLt(x, PyMul(FromInt(c), y))
                     /\ PyLt(x, PyMul(FromInt(c + 1), y))
       IN  FromInt(q)

\* ------------------------------------------------------------------------
\* RegisterFile
\* ------------------------------------------------------------------------
NumRegs == 33

\* RegisterFile.__init__: 33 slots, all zero
RegisterFile == [i \in 0..(NumRegs - 1) |-> FromInt(0)]

\* a mask of 33 bits, 0x1FFFFFFFF
MASK32_33Bits == <<65535, 65535, 1, 0>>

\* 0xFFFFFFFF
MASK32 == Word(65535, 65535)

read(regs, index) == regs[index]

\* write without the test for register 0
write_NoZeroTest(regs, index, value) ==
  [regs EXCEPT ![index] = PyAnd(value, MASK32)]

\* write without the 32-bit mask
write_NoMask(regs, index, value) ==
  IF index = 0 THEN regs
  ELSE [regs EXCEPT ![index] = value]

write(regs, index, value) ==
  IF index = 0 THEN regs
  ELSE [regs EXCEPT ![index] = PyAnd(value, MASK32)]

\* ------------------------------------------------------------------------
\* Memory: the bytearray, kept as the function of its non-zero bytes
\* ------------------------------------------------------------------------
Capacity == 2097152

\* Memory.__init__: every byte zero
Memory == <<>>

\* self.data[i]
Byte(data, i) == IF i \in DOMAIN data THEN data[i] ELSE 0

\* self.data[base + k] = bs[k + 1] for k in 0..3
SetBytes(data, base, bs) ==
  LET touched == {base + k : k \in 0..3}
      nonzero == {j \in touched : bs[j - base + 1] # 0}
      cleared == {j \in touched \ nonzero : j \in DOMAIN data}
      kept    == IF cleared = {} THEN data
                 ELSE [j \in DOMAIN data \ cleared |-> data[j]]
  IN  [j \in nonzero |-> bs[j - base + 1]] @@ kept

\* 0x001FFFFF
ADDR_MASK == Word(31, 65535)

\* the mask 0x1FFFFFFF in place of 0x001FFFFF
translate_address_Mask29(address) == ToNat(PyAnd(address, Word(8191, 65535)))

translate_address(address) == ToNat(PyAnd(address, ADDR_MASK))

\* the bounds test with > in place of >=
OutOfBounds_OffByOne(internal_addr) ==
  internal_addr < 0 \/ internal_addr + 3 > Capacity

OutOfBounds(internal_addr) == internal_addr < 0 \/ internal_addr + 3 >= Capacity

\* the loop of load_word composing the bytes least significant first
RECURSIVE LoadLoop_LittleEndian(_, _, _, _)
LoadLoop_LittleEndian(data, internal_addr, i, value) ==
  IF i = 4 THEN value
  ELSE LoadLoop_LittleEndian(data, internal_addr, i + 1,
         PyOr(value, PyShl(FromInt(Byte(data, internal_addr + i)), 8 * i)))

\* the loop of load_word: value = (value << 8) | data[internal_addr + i]
RECURSIVE LoadLoop(_, _, _, _)
LoadLoop(data, internal_addr, i, value) ==
  IF i = 4 THEN value
  ELSE LoadLoop(data, internal_addr, i + 1,
                PyOr(PyShl(value, 8), FromInt(Byte(data, internal_addr + i))))

\* load_word: [raised, value]
load_word(data, address) ==
  LET internal_addr == translate_address(address)
  IN  IF OutOfBounds(internal_addr)
      THEN [raised |-> TRUE, value |-> FromInt(0)]
      ELSE [raised |-> FALSE, value |-> LoadLoop(data, internal_addr, 0, FromInt(0))]

\* byte i of store_word: (value >> (24 - i*8)) & 0xFF
ByteVal(value, i) == ToNat(PyAnd(PyShr(value, 24 - (i * 8)), FromInt(255)))

\* store_word testing the bound byte by byte: the bytes that fit are written
\* before the error is raised
store_word_CheckPerByte(data, address, value) ==
  LET internal_addr == translate_address(address)
      fit == {j \in internal_addr..(internal_addr + 3) : j < Capacity}
      bs  == <<ByteVal(value, 0), ByteVal(value, 1), ByteVal(value, 2), ByteVal(value, 3)>>
      dom == (DOMAIN data \ fit) \cup {j \in fit : bs[j - internal_addr + 1] # 0}
  IN  [raised |-> OutOfBounds(internal_addr),
       data |-> [j \in dom |-> IF j \in fit THEN bs[j - internal_addr + 1]
                                ELSE data[j]]]

\* store_word: [raised, data]
store_word(data, address, value) ==
  LET internal_addr == translate_address(address)
  IN  IF OutOfBounds(internal_addr)
      THEN [raised |-> TRUE, data |-> data]
      ELSE [raised |-> FALSE,
            data |-> SetBytes(data, internal_addr,
                              <<ByteVal(value, 0), ByteVal(value, 1),
                                ByteVal(value, 2), ByteVal(value, 3)>>)]

\* ------------------------------------------------------------------------
\* CPU.decode
\* ------------------------------------------------------------------------
Field(instr, shift, mask) == ToNat(PyAnd(PyShr(instr, shift), FromInt(mask)))

\* the decoder without the sign extension of the 16-bit field
decode_NoSignExtend(instr) ==
  LET opcode == Field(instr, 26, 63)
  IN  IF opcode = 0
      THEN [t |-> "R", rs |-> Field(instr, 21, 31), rt |-> Field(instr, 16, 31),
            rd |-> Field(instr, 11, 31), sh |-> Field(instr, 6, 31),
            fn |-> Field(instr, 0, 63)]
      ELSE IF opcode \in {2, 3}
      THEN [t |-> "J", op |-> opcode, addr |-> Field(instr, 0, 67108863)]
      ELSE [t |-> "I", op |-> opcode, rs |-> Field(instr, 21, 31),
            rt |-> Field(instr, 16, 31), imm |-> Field(instr, 0, 65535)]

decode(instr) ==
  LET opcode == Field(instr, 26, 63)
  IN  IF opcode = 0
      THEN [t |-> "R", rs |-> Field(instr, 21, 31), rt |-> Field(instr, 16, 31),
            rd |-> Field(instr, 11, 31), sh |-> Field(instr, 6, 31),
            fn |-> Field(instr, 0, 63)]
      ELSE IF opcode \in {2, 3}
      THEN [t |-> "J", op |-> opcode, addr |-> Field(instr, 0, 67108863)]
      ELSE LET imm == Field(instr, 0, 65535)
           IN  [t |-> "I", op |-> opcode, rs |-> Field(instr, 21, 31),
                rt |-> Field(instr, 16, 31),
                imm |-> IF BitAnd(imm, 32768) # 0 THEN imm - 65536 ELSE imm]

\* ------------------------------------------------------------------------
\* CPU.execute
\* ------------------------------------------------------------------------
\* 0xF0000000
PC_REGION_MASK == Word(61440, 0)

\* the outcome of execute: the three parts of the CPU state, whether an
\* IndexError left the method, the indices handed to RegisterFile.write and
\* the <<address, value>> handed to a Memory.store_word that returned
Outcome(regs, data, pc, raised, written) ==
  [registers |-> regs, data |-> data, program_counter |-> pc,
   raised |-> raised, written |-> written, stores |-> {}]

\* self.registers.write(index, value) as the whole effect of an instruction
WriteReg(regs, data, pc, index, value) ==
  Outcome(write(regs, index, value), data, pc, FALSE, {index})

\* the R-type instructions with a div by zero that clears the auxiliary
\* register instead of skipping the write
executeR_DivZeroClears(d, regs, data, pc) ==
  LET v1 == read(regs, d.rs)
      v2 == read(regs, d.rt)
  IN  CASE d.fn = 32 -> WriteReg(regs, data, pc, d.rd, PyAdd(v1, v2))
        [] d.fn = 34 -> WriteReg(regs, data, pc, d.rd, PySub(v1, v2))
        [] d.fn = 0  -> WriteReg(regs, data, pc, d.rd, PyShl(v2, d.sh))
        [] d.fn = 42 -> WriteReg(regs, data, pc, d.rd,
                                 IF PyLt(v1, v2) THEN FromInt(1) ELSE FromInt(0))
        [] d.fn = 38 -> WriteReg(regs, data, pc, d.rd, PyXor(v1, v2))
        [] d.fn = 37 -> WriteReg(regs, data, pc, d.rd, PyOr(v1, v2))
        [] d.fn = 39 -> WriteReg(regs, data, pc, d.rd, PyNot(PyOr(v1, v2)))
        [] d.fn = 36 -> WriteReg(regs, data, pc, d.rd, PyAnd(v1, v2))
        [] d.fn = 8  -> Outcome(regs, data, read(regs, d.rs), FALSE, {})
        [] d.fn = 24 -> WriteReg(regs, data, pc, 32, PyAnd(PyMul(v1, v2), MASK32))
        [] d.fn = 26 -> IF v2 # FromInt(0)
                        THEN WriteReg(regs, data, pc, 32,
                                      PyAnd(PyFloorDiv(v1, v2), MASK32))
                        ELSE WriteReg(regs, data, pc, 32, FromInt(0))
        [] d.fn = 18 -> WriteReg(regs, data, pc, d.rd, read(regs, 32))
        [] OTHER     -> Outcome(regs, data, pc, FALSE, {})

\* the R-type instructions with every function code that is not implemented
\* executed as an add
executeR_UnknownAsAdd(d, regs, data, pc) ==
  LET v1 == read(regs, d.rs)
      v2 == read(regs, d.rt)
  IN  CASE d.fn = 32 -> WriteReg(regs, data, pc, d.rd, PyAdd(v1, v2))
        [] d.fn = 34 -> WriteReg(regs, data, pc, d.rd, PySub(v1, v2))
        [] d.fn = 0  -> WriteReg(regs, data, pc, d.rd, PyShl(v2, d.sh))
        [] d.fn = 42 -> WriteReg(regs, data, pc, d.rd,
                                 IF PyLt(v1, v2) THEN FromInt(1) ELSE FromInt(0))
        [] d.fn = 38 -> WriteReg(regs, data, pc, d.rd, PyXor(v1, v2))
        [] d.fn = 37 -> WriteReg(regs, data, pc, d.rd, PyOr(v1, v2))
        [] d.fn = 39 -> WriteReg(regs, data, pc, d.rd, PyNot(PyOr(v1, v2)))
        [] d.fn = 36 -> WriteReg(regs, data, pc, d.rd, PyAnd(v1, v2))
        [] d.fn = 8  -> Outcome(regs, data, read(regs, d.rs), FALSE, {})
        [] d.fn = 24 -> WriteReg(regs, data, pc, 32, PyAnd(PyMul(v1, v2), MASK32))
        [] d.fn = 26 -> IF v2 # FromInt(0)
                        THEN WriteReg(regs, data, pc, 32,
                                      PyAnd(PyFloorDiv(v1, v2), MASK32))
                        ELSE Outcome(regs, data, pc, FALSE, {})
        [] d.fn = 18 -> WriteReg(regs, data, pc, d.rd, read(regs, 32))
        [] OTHER     -> WriteReg(regs, data, pc, d.rd, PyAdd(v1, v2))

\* the R-type instructions with a mult that keeps the high 32 bits of the
\* product instead of the low 32
executeR_MultHigh(d, regs, data, pc) ==
  LET v1 == read(regs, d.rs)
      v2 == read(regs, d.rt)
  IN  CASE d.fn = 32 -> WriteReg(regs, data, pc, d.rd, PyAdd(v1, v2))
        [] d.fn = 34 -> WriteReg(regs, data, pc, d.rd, PySub(v1, v2))
        [] d.fn = 0  -> WriteReg(regs, data, pc, d.rd, PyShl(v2, d.sh))
        [] d.fn = 42 -> WriteReg(regs, data, pc, d.rd,
                                 IF PyLt(v1, v2) THEN FromInt(1) ELSE FromInt(0))
        [] d.fn = 38 -> WriteReg(regs, data, pc, d.rd, PyXor(v1, v2))
        [] d.fn = 37 -> WriteReg(regs, data, pc, d.rd, PyOr(v1, v2))
        [] d.fn = 39 -> WriteReg(regs, data, pc, d.rd, PyNot(PyOr(v1, v2)))
        [] d.fn = 36 -> WriteReg(regs, data, pc, d.rd, PyAnd(v1, v2))
        [] d.fn = 8  -> Outcome(regs, data, read(regs, d.rs), FALSE, {})
        [] d.fn = 24 -> WriteReg(regs, data, pc, 32,
                                 PyAnd(PyShr(PyMul(v1, v2), 32), MASK32))
        [] d.fn = 26 -> IF v2 # FromInt(0)
                        THEN WriteReg(regs, data, pc, 32,
                                      PyAnd(PyFloorDiv(v1, v2), MASK32))
                        ELSE Outcome(regs, data, pc, FALSE, {})
        [] d.fn = 18 -> WriteReg(regs, data, pc, d.rd, read(regs, 32))
        [] OTHER     -> Outcome(regs, data, pc, FALSE, {})

executeR(d, regs, data, pc) ==
  LET v1 == read(regs, d.rs)
      v2 == read(regs, d.rt)
  IN  CASE d.fn = 32 -> WriteReg(regs, data, pc, d.rd, PyAdd(v1, v2))
        [] d.fn = 34 -> WriteReg(regs, data, pc, d.rd, PySub(v1, v2))
        [] d.fn = 0  -> WriteReg(regs, data, pc, d.rd, PyShl(v2, d.sh))
        [] d.fn = 42 -> WriteReg(regs, data, pc, d.rd,
                                 IF PyLt(v1, v2) THEN FromInt(1) ELSE FromInt(0))
        [] d.fn = 38 -> WriteReg(regs, data, pc, d.rd, PyXor(v1, v2))
        [] d.fn = 37 -> WriteReg(regs, data, pc, d.rd, PyOr(v1, v2))
        [] d.fn = 39 -> WriteReg(regs, data, pc, d.rd, PyNot(PyOr(v1, v2)))
        [] d.fn = 36 -> WriteReg(regs, data, pc, d.rd, PyAnd(v1, v2))
        [] d.fn = 8  -> Outcome(regs, data, read(regs, d.rs), FALSE, {})
        [] d.fn = 24 -> WriteReg(regs, data, pc, 32, PyAnd(PyMul(v1, v2), MASK32))
        [] d.fn = 26 -> IF v2 # FromInt(0)
                        THEN WriteReg(regs, data, pc, 32,
                                      PyAnd(PyFloorDiv(v1, v2), MASK32))
                        ELSE Outcome(regs, data, pc, FALSE, {})
        [] d.fn = 18 -> WriteReg(regs, data, pc, d.rd, read(regs, 32))
        [] OTHER     -> Outcome(regs, data, pc, FALSE, {})

\* the I-type instructions with a branch taken relative to the branch
\* instruction itself instead of to the instruction after it
executeI_BranchFromInstr(d, regs, data, pc) ==
  LET rs_val == read(regs, d.rs)
      addr   == PyAdd(rs_val, FromInt(d.imm))
      taken  == PyAdd(pc, FromInt(d.imm * 4 - 4))
  IN  CASE d.op = 8  -> WriteReg(regs, data, pc, d.rt, PyAdd(rs_val, FromInt(d.imm)))
        [] d.op = 35 -> LET l == load_word(data, addr)
                        IN  IF l.raised
                            THEN Outcome(regs, data, pc, TRUE, {})
                            ELSE WriteReg(regs, data, pc, d.rt, l.value)
        [] d.op = 43 -> LET st == store_word(data, addr, read(regs, d.rt))
                        IN  [Outcome(regs, st.data, pc, st.raised, {})
                               EXCEPT !.stores = IF st.raised THEN {}
                                                 ELSE {<<addr, read(regs, d.rt)>>}]
        [] d.op = 4  -> IF read(regs, d.rs) = read(regs, d.rt)
                        THEN Outcome(regs, data, taken, FALSE, {})
                        ELSE Outcome(regs, data, pc, FALSE, {})
        [] d.op = 5  -> IF read(regs, d.rs) # read(regs, d.rt)
                        THEN Outcome(regs, data, taken, FALSE, {})
                        ELSE Outcome(regs, data, pc, FALSE, {})
        [] OTHER     -> Outcome(regs, data, pc, FALSE, {})

\* the I-type instructions with a branch whose offset is taken in bytes
\* (not multiplied by 4)
executeI_BranchBytes(d, regs, data, pc) ==
  LET rs_val == read(regs, d.rs)
      addr   == PyAdd(rs_val, FromInt(d.imm))
      taken  == PyAdd(pc, FromInt(d.imm))
  IN  CASE d.op = 8  -> WriteReg(regs, data, pc, d.rt, PyAdd(rs_val, FromInt(d.imm)))
        [] d.op = 35 -> LET l == load_word(data, addr)
                        IN  IF l.raised
                            THEN Outcome(regs, data, pc, TRUE, {})
                            ELSE WriteReg(regs, data, pc, d.rt, l.value)
        [] d.op = 43 -> LET st == store_word(data, addr, read(regs, d.rt))
                        IN  [Outcome(regs, st.data, pc, st.raised, {})
                               EXCEPT !.stores = IF st.raised THEN {}
                                                 ELSE {<<addr, read(regs, d.rt)>>}]
        [] d.op = 4  -> IF read(regs, d.rs) = read(regs, d.rt)
                        THEN Outcome(regs, data, taken, FALSE, {})
                        ELSE Outcome(regs, data, pc, FALSE, {})
        [] d.op = 5  -> IF read(regs, d.rs) # read(regs, d.rt)
                        THEN Outcome(regs, data, taken, FALSE, {})
                        ELSE Outcome(regs, data, pc, FALSE, {})
        [] OTHER     -> Outcome(regs, data, pc, FALSE, {})

\* the I-type instructions with a lw/sw that, when the access raises, puts
\* the program counter back on the instruction
executeI_FaultRollsBack(d, regs, data, pc) ==
  LET rs_val == read(regs, d.rs)
      addr   == PyAdd(rs_val, FromInt(d.imm))
      taken  == PyAdd(pc, FromInt(d.imm * 4))
      back   == PySub(pc, FromInt(4))
  IN  CASE d.op = 8  -> WriteReg(regs, data, pc, d.rt, PyAdd(rs_val, FromInt(d.imm)))
        [] d.op = 35 -> LET l == load_word(data, addr)
                        IN  IF l.raised
                            THEN Outcome(regs, data, back, TRUE, {})
                            ELSE WriteReg(regs, data, pc, d.rt, l.value)
        [] d.op = 43 -> LET st == store_word(data, addr, read(regs, d.rt))
                        IN  [Outcome(regs, st.data, IF st.raised THEN back ELSE pc,
                                     st.raised, {})
                               EXCEPT !.stores = IF st.raised THEN {}
                                                 ELSE {<<addr, read(regs, d.rt)>>}]
        [] d.op = 4  -> IF read(regs, d.rs) = read(regs, d.rt)
                        THEN Outcome(regs, data, taken, FALSE, {})
                        ELSE Outcome(regs, data, pc, FALSE, {})
        [] d.op = 5  -> IF read(regs, d.rs) # read(regs, d.rt)
                        THEN Outcome(regs, data, taken, FALSE, {})
                        ELSE Outcome(regs, data, pc, FALSE, {})
        [] OTHER     -> Outcome(regs, data, pc, FALSE, {})

\* the I-type instructions with a lw that loads from the rs value alone
executeI_LwIgnoresImm(d, regs, data, pc) ==
  LET rs_val == read(regs, d.rs)
      addr   == PyAdd(rs_val, FromInt(d.imm))
      taken  == PyAdd(pc, FromInt(d.imm * 4))
  IN  CASE d.op = 8  -> WriteReg(regs, data, pc, d.rt, PyAdd(rs_val, FromInt(d.imm)))
        [] d.op = 35 -> LET l == load_word(data, rs_val)
                        IN  IF l.raised
                            THEN Outcome(regs, data, pc, TRUE, {})
                            ELSE WriteReg(regs, data, pc, d.rt, l.value)
        [] d.op = 43 -> LET st == store_word(data, addr, read(regs, d.rt))
                        IN  [Outcome(regs, st.data, pc, st.raised, {})
                               EXCEPT !.stores = IF st.raised THEN {}
                                                 ELSE {<<addr, read(regs, d.rt)>>}]
        [] d.op = 4  -> IF read(regs, d.rs) = read(regs, d.rt)
                        THEN Outcome(regs, data, taken, FALSE, {})
                        ELSE Outcome(regs, data, pc, FALSE, {})
        [] d.op = 5  -> IF read(regs, d.rs) # read(regs, d.rt)
                        THEN Outcome(regs, data, taken, FALSE, {})
                        ELSE Outcome(regs, data, pc, FALSE, {})
        [] OTHER     -> Outcome(regs, data, pc, FALSE, {})

executeI(d, regs, data, pc) ==
  LET rs_val == read(regs, d.rs)
      addr   == PyAdd(rs_val, FromInt(d.imm))
      taken  == PyAdd(pc, FromInt(d.imm * 4))
  IN  CASE d.op = 8  -> WriteReg(regs, data, pc, d.rt, PyAdd(rs_val, FromInt(d.imm)))
        [] d.op = 35 -> LET l == load_word(data, addr)
                        IN  IF l.raised
                            THEN Outcome(regs, data, pc, TRUE, {})
                            ELSE WriteReg(regs, data, pc, d.rt, l.value)
        [] d.op = 43 -> LET st == store_word(data, addr, read(regs, d.rt))
                        IN  [Outcome(regs, st.data, pc, st.raised, {})
                               EXCEPT !.stores = IF st.raised THEN {}
                                                 ELSE {<<addr, read(regs, d.rt)>>}]
        [] d.op = 4  -> IF read(regs, d.rs) = read(regs, d.rt)
                        THEN Outcome(regs, data, taken, FALSE, {})
                        ELSE Outcome(regs, data, pc, FALSE, {})
        [] d.op = 5  -> IF read(regs, d.rs) # read(regs, d.rt)
                        THEN Outcome(regs, data, taken, FALSE, {})
                        ELSE Outcome(regs, data, pc, FALSE, {})
        [] OTHER     -> Outcome(regs, data, pc, FALSE, {})

\* the J-type instructions with a jal that saves the return address in
\* slot 32
executeJ_LinkInAux(d, regs, data, pc) ==
  LET target == PyOr(PyAnd(pc, PC_REGION_MASK), PyShl(FromInt(d.addr), 2))
  IN  CASE d.op = 2 -> Outcome(regs, data, target, FALSE, {})
        [] d.op = 3 -> Outcome(write(regs, 32, pc), data, target, FALSE, {32})
        [] OTHER    -> Outcome(regs, data, pc, FALSE, {})

\* the J-type instructions with the 26-bit field taken as a byte address
\* (not shifted left by 2)
executeJ_NoShift(d, regs, data, pc) ==
  LET target == PyOr(PyAnd(pc, PC_REGION_MASK), FromInt(d.addr))
  IN  CASE d.op = 2 -> Outcome(regs, data, target, FALSE, {})
        [] d.op = 3 -> Outcome(write(regs, 31, pc), data, target, FALSE, {31})
        [] OTHER    -> Outcome(regs, data, pc, FALSE, {})

executeJ(d, regs, data, pc) ==
  LET target == PyOr(PyAnd(pc, PC_REGION_MASK), PyShl(FromInt(d.addr), 2))
  IN  CASE d.op = 2 -> Outcome(regs, data, target, FALSE, {})
        [] d.op = 3 -> Outcome(write(regs, 31, pc), data, target, FALSE, {31})
        [] OTHER    -> Outcome(regs, data, pc, FALSE, {})

\* execute(decoded), entered with the program counter fetch has advanced
execute(d, regs, data, pc) ==
  CASE d.t = "R" -> executeR(d, regs, data, pc)
    [] d.t = "I" -> executeI(d, regs, data, pc)
    [] d.t = "J" -> executeJ(d, regs, data, pc)

\* ------------------------------------------------------------------------
\* Encoded instructions the caller loads (layout of the words in
\* src/test_mips.py)
\* ------------------------------------------------------------------------
EncR(rs, rt, rd, sh, fn) == Word(rs * 32 + rt, rd * 2048 + sh * 64 + fn)
EncI(op, rs, rt, imm)    == Word(op * 1024 + rs * 32 + rt, imm % 65536)
EncJ(op, addr)           == Word(op * 1024 + (addr \div 65536), addr % 65536)

\* ------------------------------------------------------------------------
\* Bounds and the inputs the caller draws from
\* ------------------------------------------------------------------------
MaxCalls  == 3
MaxCycles == 20
MaxAdds   == 6

\* test_branch_instructions
ProgBranch ==
  <<EncI(8, 0, 8, 5), EncI(8, 0, 9, 5), EncI(4, 8, 9, 2),
    EncI(8, 0, 10, 10), EncI(8, 0, 11, 20), EncI(8, 0, 12, 30)>>

\* test_jump_and_function_calls
ProgCall ==
  <<EncI(8, 0, 2, 0), EncJ(3, 1048579), EncJ(2, 1048581),
    EncI(8, 0, 2, 42), EncR(31, 0, 0, 0, 8)>>

\* test_load_store_instructions
ProgLoadStore ==
  <<EncI(8, 0, 8, 4096), EncI(8, 0, 9, 66), EncI(43, 8, 9, 0),
    EncI(8, 0, 10, 0), EncI(35, 8, 10, 0)>>

\* bne $8,$0,2 ; addi $8,$0,-4 ; jr $8 ; jal 0x00400014 ; sll ; jr $31
ProgWrap ==
  <<EncI(5, 8, 0, 2), EncI(8, 0, 8, -4), EncR(8, 0, 0, 0, 8),
    EncJ(3, 1048581), EncR(0, 0, 0, 0, 0), EncR(31, 0, 0, 0, 8)>>

\* bne $8,$0,-2 ; addi $8,$0,1 ; jr $0
ProgBack ==
  <<EncI(5, 8, 0, -2), EncI(8, 0, 8, 1), EncR(0, 0, 0, 0, 8)>>

\* addi $8,$0,-1 ; lw $9,0($8) ; jr $8
ProgLoadFault ==
  <<EncI(8, 0, 8, -1), EncI(35, 8, 9, 0), EncR(8, 0, 0, 0, 8)>>

\* addi $9,$0,-1 ; sw $9,-1($0) ; addi $10,$0,1
ProgStoreFault ==
  <<EncI(8, 0, 9, -1), EncI(43, 0, 9, -1), EncI(8, 0, 10, 1)>>

\* addi $8,$0,-1 ; addi $9,$0,8 ; sw $9,17($8) ; lw $10,16($0) ;
\* then the word the sw stored at 2^32 + 16 is fetched from 0x00400010
ProgAlias ==
  <<EncI(8, 0, 8, -1), EncI(8, 0, 9, 8), EncI(43, 8, 9, 17), EncI(35, 0, 10, 16)>>

\* addi $0,$0,5 ; add $0,$29,$29 ; mflo $0 ; jal 0x00400000
ProgZero ==
  <<EncI(8, 0, 0, 5), EncR(29, 29, 0, 0, 32), EncR(0, 0, 0, 0, 18),
    EncJ(3, 1048576)>>

\* test_factorial: 0x20080005 0x20090001 0x11000004 0x01280018 0x00004812
\* 0x2108FFFF 0x08100002
ProgFactorial ==
  <<EncI(8, 0, 8, 5), EncI(8, 0, 9, 1), EncI(4, 8, 0, 4), EncR(9, 8, 0, 0, 24),
    EncR(0, 0, 9, 0, 18), EncI(8, 8, 8, -1), EncJ(2, 1048578)>>

\* addi $8,$0,-1 ; addi $9,$0,1 ; add $10,$8,$9 ; sub $11,$0,$9 ;
\* sll $12,$8,31 ; slt $13,$8,$9 ; slt $13,$9,$8 ; addi $14,$0,0xFF ;
\* addi $15,$0,0xF0F ; and $16,$14,$15 ; or $17,$14,$15 ; xor $18,$14,$15 ;
\* nor $19,$14,$15 ; mult $8,$8 ; mflo $20 ; div $8,$0 ; div $8,$15 ;
\* mflo $21 ; sll $22,$15,4   (the operands of test_bit_operations)
ProgALU ==
  <<EncI(8, 0, 8, -1), EncI(8, 0, 9, 1), EncR(8, 9, 10, 0, 32),
    EncR(0, 9, 11, 0, 34), EncR(0, 8, 12, 31, 0), EncR(8, 9, 13, 0, 42),
    EncR(9, 8, 13, 0, 42), EncI(8, 0, 14, 255), EncI(8, 0, 15, 3855),
    EncR(14, 15, 16, 0, 36), EncR(14, 15, 17, 0, 37), EncR(14, 15, 18, 0, 38),
    EncR(14, 15, 19, 0, 39), EncR(8, 8, 0, 0, 24), EncR(0, 0, 20, 0, 18),
    EncR(8, 0, 0, 0, 26), EncR(8, 15, 0, 0, 26), EncR(0, 0, 21, 0, 18),
    EncR(0, 15, 22, 4, 0)>>

\* addi $31,$31,0x7FFF ; 0xFFFFFFFF ; 0x03FFFFFF ; j 0x0FFFFFFC
ProgDecode ==
  <<EncI(8, 31, 31, 32767), Word(65535, 65535), EncR(31, 31, 31, 31, 63),
    EncJ(2, 67108863)>>

\* addi $8,$0,0x1002 ; sw $8,0($8) ; sw $8,4($8) ; lw $9,0($8) ; jr $8
ProgUnaligned ==
  <<EncI(8, 0, 8, 4098), EncI(43, 8, 8, 0), EncI(43, 8, 8, 4),
    EncI(35, 8, 9, 0), EncR(8, 0, 0, 0, 8)>>

Programs ==
  {ProgBranch, ProgCall, ProgLoadStore, ProgWrap, ProgBack,
   ProgLoadFault, ProgStoreFault, ProgAlias, ProgZero, ProgFactorial,
   ProgALU, ProgDecode, ProgUnaligned}

\* 0x00001000, 0x10001000, -4, -3
Addresses == {FromInt(4096), Word(4096, 4096), FromInt(-4), FromInt(-3)}

\* 0x12345678, 0xFFFFFFFF
Values == {Word(4660, 22136), Word(65535, 65535)}

WriteIndices == {0, 31}

\* -1, 2^32 + 5
WriteValues == {FromInt(-1), <<5, 0, 1, 0>>}

\* the cycle counts the caller asks of run(): one, two, or all that are left
RunCycles(done) == {c \in {1, 2, MaxCycles - done} : c >= 1 /\ done + c <= MaxCycles}

\* ------------------------------------------------------------------------
\* State
\* ------------------------------------------------------------------------
VARIABLES
  registers,        \* RegisterFile.registers
  data,             \* Memory.data
  program_counter,  \* CPU.program_counter
  cycles_left,      \* iterations the loop of run() has still to make
  raised,           \* the last call left through an IndexError
  last,             \* the last operation: its inputs and the state it found
  link,             \* the last jal whose register 31 was not written since
  stored,           \* the last store_word that returned: its address and value
  sw_words,         \* <<index, value>> of each sw whose 4 bytes no later store touched
  fault,            \* the lw/sw that raised in the last cycle executed, if one did
  jr_executed,      \* some cycle has executed a jr
  ncalls,           \* calls made by the caller
  ncycles           \* cycles executed

\* the visualizers (the class Pipeline of src/pipeline.py and of src/proj1.py)
VARIABLES
  instructions,     \* Pipeline.instructions, oldest first
  i_number,         \* Pipeline.i_number
  plast,            \* the last call on the Pipeline and the state it found
  age,              \* step_pipeline calls made since each instruction present
                    \* entered the IF stage
  done,             \* the names of the completed instructions, in order
  fresh_add         \* an add was accepted and no step_pipeline has run since

cpu_vars ==
  <<registers, data, program_counter, cycles_left, raised, last, link,
    stored, sw_words, fault, jr_executed, ncalls, ncycles>>

pipeline_vars == <<instructions, i_number, plast, age, done, fresh_add>>

vars == <<cpu_vars, pipeline_vars>>

TEXT_BASE == 4194304

NoDecode == [t |-> "-"]
NoLink   == [valid |-> FALSE, at |-> FromInt(0)]
NoStore  == [valid |-> FALSE, address |-> FromInt(0), value |-> FromInt(0)]
NoFault  == [valid |-> FALSE, at |-> FromInt(0)]

\* the record kept of an operation
Last(op, arg, value, ret, fetched, instr, dec, written) ==
  [op |-> op, arg |-> arg, value |-> value, ret |-> ret,
   fetched |-> fetched, instr |-> instr, dec |-> dec, written |-> written,
   pc |-> program_counter, registers |-> registers, data |-> data,
   cycles_left |-> cycles_left, link |-> link, stored |-> stored,
   sw_words |-> sw_words, fault |-> fault]

\* the 4 bytes of the record w of sw_words and the 4 bytes at translated
\* index i are disjoint
Apart(w, i) == w[1] + 3 < i \/ i + 3 < w[1]

\* the records of sw_words a store_word at translated index i leaves standing
Untouched(words, i) == {w \in words : Apart(w, i)}

\* the record kept of a call on the Pipeline
PLast(op, refused, fetched, skipped, completed) ==
  [op |-> op, refused |-> refused, fetched |-> fetched, skipped |-> skipped,
   completed |-> completed, instructions |-> instructions,
   i_number |-> i_number, age |-> age, done |-> done, fresh_add |-> fresh_add]

\* CPU.__init__ on a fresh Memory; Pipeline.__init__
Init ==
  /\ instructions = <<>>
  /\ i_number = 1
  /\ age = <<>>
  /\ done = <<>>
  /\ fresh_add = FALSE
  /\ plast = [op |-> "init", refused |-> FALSE, fetched |-> {}, skipped |-> FALSE,
              completed |-> <<>>, instructions |-> <<>>, i_number |-> 1,
              age |-> <<>>, done |-> <<>>, fresh_add |-> FALSE]
  /\ registers = write(write(RegisterFile, 29, FromInt(1048576)), 32, FromInt(0))
  /\ data = Memory
  /\ program_counter = FromInt(TEXT_BASE)
  /\ cycles_left = 0
  /\ raised = FALSE
  /\ link = NoLink
  /\ stored = NoStore
  /\ sw_words = {}
  /\ fault = NoFault
  /\ jr_executed = FALSE
  /\ ncalls = 0
  /\ ncycles = 0
  /\ last = [op |-> "init", arg |-> 0, value |-> FromInt(0), ret |-> FromInt(0),
             fetched |-> FALSE, instr |-> FromInt(0), dec |-> NoDecode,
             written |-> {29, 32},
             pc |-> FromInt(TEXT_BASE), registers |-> RegisterFile,
             data |-> Memory, cycles_left |-> 0, link |-> NoLink,
             stored |-> NoStore, sw_words |-> {}, fault |-> NoFault]

CallerTurn ==
  /\ cycles_left = 0
  /\ ncalls < MaxCalls
  /\ ncalls' = ncalls + 1

\* the caller calls RegisterFile.write(index, value)
Write(index, value) ==
  /\ CallerTurn
  /\ registers' = write(registers, index, value)
  /\ link' = IF index = 31 THEN NoLink ELSE link
  /\ raised' = FALSE
  /\ last' = Last("write", index, value, FromInt(0), FALSE, FromInt(0), NoDecode, {index})
  /\ UNCHANGED <<data, program_counter, cycles_left, stored, sw_words, fault,
                 jr_executed, ncycles>>
  /\ UNCHANGED pipeline_vars

\* the caller calls Memory.store_word(address, value)
StoreWord(address, value) ==
  /\ CallerTurn
  /\ UNCHANGED pipeline_vars
  /\ \E st \in {store_word(data, address, value)} :
      /\ data' = st.data
      /\ raised' = st.raised
      /\ stored' = IF st.raised THEN stored
                    ELSE [valid |-> TRUE, address |-> address, value |-> value]
      /\ sw_words' = IF st.raised THEN sw_words
                      ELSE Untouched(sw_words, translate_address(address))
      /\ last' = Last("store_word", address, value, FromInt(0), FALSE, FromInt(0), NoDecode, {})
      /\ UNCHANGED <<registers, program_counter, cycles_left, link, fault,
                     jr_executed, ncycles>>

\* the caller calls Memory.load_word(address)
LoadWord(address) ==
  /\ CallerTurn
  /\ UNCHANGED pipeline_vars
  /\ \E l \in {load_word(data, address)} :
      /\ raised' = l.raised
      /\ last' = Last("load_word", address, FromInt(0), l.value, FALSE, FromInt(0), NoDecode, {})
      /\ UNCHANGED <<registers, data, program_counter, cycles_left, link, stored,
                     sw_words, fault, jr_executed, ncycles>>

\* the loader: store_word(addr, w) for each word, addr advancing by 4
RECURSIVE StoreWords(_, _, _)
StoreWords(mem, addr, words) ==
  IF words = <<>> THEN [raised |-> FALSE, data |-> mem]
  ELSE LET st == store_word(mem, addr, Head(words))
       IN  IF st.raised THEN st
           ELSE StoreWords(st.data, PyAdd(addr, FromInt(4)), Tail(words))

\* the address the loader stores word k of a program at
LoadAddress(k) == FromInt(TEXT_BASE + 4 * (k - 1))

\* the caller loads a program at the text base
LoadInstructions(words) ==
  /\ CallerTurn
  /\ UNCHANGED pipeline_vars
  /\ \E st \in {StoreWords(data, FromInt(TEXT_BASE), words)} :
      /\ data' = st.data
      /\ raised' = st.raised
      /\ stored' = IF st.raised \/ words = <<>> THEN stored
                    ELSE [valid |-> TRUE, address |-> LoadAddress(Len(words)),
                          value |-> words[Len(words)]]
      /\ sw_words' = IF st.raised THEN sw_words
                      ELSE {w \in sw_words :
                              \A k \in 1..Len(words) :
                                  Apart(w, translate_address(LoadAddress(k)))}
      /\ last' = Last("load_instructions", words, FromInt(0), FromInt(0), FALSE, FromInt(0), NoDecode, {})
      /\ UNCHANGED <<registers, program_counter, cycles_left, link, fault,
                     jr_executed, ncycles>>

\* the caller calls run(cycles) with cycles >= 1: the loop is entered
Run(cycles) ==
  /\ CallerTurn
  /\ cycles_left' = cycles
  /\ raised' = FALSE
  /\ last' = Last("run", cycles, FromInt(0), FromInt(0), FALSE, FromInt(0), NoDecode, {})
  /\ UNCHANGED <<registers, data, program_counter, link, stored, sw_words, fault,
                 jr_executed, ncycles>>
  /\ UNCHANGED pipeline_vars

\* CPU.fetch: [raised, instr, program_counter]
fetch(mem, pc) ==
  LET l == load_word(mem, pc)
  IN  IF l.raised
      THEN [raised |-> TRUE, instr |-> FromInt(0), program_counter |-> pc]
      ELSE [raised |-> FALSE, instr |-> l.value,
            program_counter |-> PyAdd(pc, FromInt(4))]

\* one iteration of the loop of run(): fetch, decode, execute
Cycle ==
  /\ cycles_left > 0
  /\ ncycles' = ncycles + 1
  /\ UNCHANGED ncalls
  /\ UNCHANGED pipeline_vars
  /\ \E f \in {fetch(data, program_counter)} :
         IF f.raised
         THEN /\ raised' = TRUE
              /\ cycles_left' = 0
              /\ last' = Last("cycle", 0, FromInt(0), FromInt(0), FALSE, FromInt(0), NoDecode, {})
              /\ fault' = NoFault
              /\ UNCHANGED <<registers, data, program_counter, link, stored, sw_words,
                             jr_executed>>
         ELSE \E dec \in {decode(f.instr)} :
              \E ex \in {execute(dec, registers, data, f.program_counter)} :
                  /\ registers' = ex.registers
                  /\ data' = ex.data
                  /\ program_counter' = ex.program_counter
                  /\ raised' = ex.raised
                  /\ cycles_left' = IF ex.raised THEN 0 ELSE cycles_left - 1
                  /\ link' = IF dec.t = "J" /\ dec.op = 3
                             THEN [valid |-> TRUE, at |-> program_counter]
                             ELSE IF 31 \in ex.written THEN NoLink ELSE link
                  /\ stored' = IF ex.stores = {} THEN stored
                                ELSE LET sw == CHOOSE x \in ex.stores : TRUE
                                     IN  [valid |-> TRUE, address |-> sw[1],
                                          value |-> sw[2]]
                  /\ sw_words' =
                       IF ex.stores = {} THEN sw_words
                       ELSE LET sw == CHOOSE x \in ex.stores : TRUE
                                i  == translate_address(sw[1])
                            IN  Untouched(sw_words, i) \cup {<<i, sw[2]>>}
                  /\ fault' = IF ex.raised
                              THEN [valid |-> TRUE, at |-> program_counter]
                              ELSE NoFault
                  /\ jr_executed' = (jr_executed \/ (dec.t = "R" /\ dec.fn = 8))
                  /\ last' = Last("cycle", 0, FromInt(0), FromInt(0), TRUE, f.instr, dec,
                                   ex.written)

Next ==
  \/ \E index \in WriteIndices, value \in WriteValues : Write(index, value)
  \/ \E address \in Addresses, value \in Values : StoreWord(address, value)
  \/ \E address \in Addresses : LoadWord(address)
  \/ \E words \in Programs : LoadInstructions(words)
  \/ \E cycles \in RunCycles(ncycles) : Run(cycles)
  \/ Cycle

Spec == Init /\ [][Next]_vars

\* ------------------------------------------------------------------------
\* src/pipeline.py: Instruction and Pipeline
\* ------------------------------------------------------------------------
\* the strings the user enters ("e.g., ADD $t0 $t1 $t2")
InstrStrs == {"ADD $t0 $t1 $t2", "LW $t3 0($t0)"}

\* Instruction.__init__; the name "I<n>" is kept as the number n
Instruction(name, instr_str) ==
  [name |-> name, instr_str |-> instr_str, stage_count |-> -1]

\* the names of a list of instructions, in order
RECURSIVE Names(_)
Names(instrs) ==
  IF instrs = <<>> THEN <<>> ELSE <<Head(instrs).name>> \o Names(Tail(instrs))

\* the elements of a sequence of names
NameSet(names) == {names[k] : k \in 1..Len(names)}

\* add_instruction: [instructions, i_number]
add_instruction(instrs, n, instr_str) ==
  [instructions |-> Append(instrs, Instruction(n, instr_str)), i_number |-> n + 1]

\* Step 1 of step_pipeline: the loop advancing the fetched instructions
RECURSIVE Advance(_)
Advance(instrs) ==
  IF instrs = <<>> THEN <<>>
  ELSE LET i == Head(instrs)
       IN  <<IF i.stage_count >= 0 /\ i.stage_count < 3
             THEN [i EXCEPT !.stage_count = @ + 1]
             ELSE IF i.stage_count = 3
             THEN [i EXCEPT !.stage_count = @ + 1]
             ELSE i>> \o Advance(Tail(instrs))

\* the list `completed` Step 1 builds: the instructions it found at 3
Completed(instrs) == SelectSeq(instrs, LAMBDA i : i.stage_count = 3)

\* Step 2 without the break: every unfetched instruction is fetched
Fetch_NoBreak(instrs) ==
  IF ~(\E k \in 1..Len(instrs) : instrs[k].stage_count = 0)
  THEN [instructions |-> [k \in 1..Len(instrs) |->
                            IF instrs[k].stage_count = -1
                            THEN [instrs[k] EXCEPT !.stage_count = 0]
                            ELSE instrs[k]],
        fetched |-> {instrs[k].name : k \in {j \in 1..Len(instrs) :
                                                instrs[j].stage_count = -1}},
        skipped |-> FALSE]
  ELSE [instructions |-> instrs, fetched |-> {}, skipped |-> TRUE]

\* Step 2 of step_pipeline: [instructions, fetched, skipped]
Fetch(instrs) ==
  LET unfetched == {k \in 1..Len(instrs) : instrs[k].stage_count = -1}
  IN  IF ~(\E k \in 1..Len(instrs) : instrs[k].stage_count = 0)
      THEN IF unfetched = {}
           THEN [instructions |-> instrs, fetched |-> {}, skipped |-> FALSE]
           ELSE LET first == CHOOSE k \in unfetched : \A j \in unfetched : k <= j
                IN  [instructions |-> [instrs EXCEPT ![first].stage_count = 0],
                     fetched |-> {instrs[first].name}, skipped |-> FALSE]
      ELSE [instructions |-> instrs, fetched |-> {}, skipped |-> TRUE]

\* Step 3 of step_pipeline: self.instructions.remove(i) for i in completed
\* (an Instruction is equal to itself alone, and names are not reused)
Remove(instrs, completed) ==
  SelectSeq(instrs, LAMBDA i : i.name \notin NameSet(completed))

\* step_pipeline with Step 2 made before Step 1: the IF stage is tested
\* before the instruction in it has moved on
step_pipeline_FetchBeforeAdvance(instrs) ==
  LET completed == Names(Completed(instrs))
      f         == Fetch(instrs)
      advanced  == [k \in 1..Len(instrs) |->
                      IF f.instructions[k].name \in f.fetched
                      THEN f.instructions[k]
                      ELSE Advance(<<f.instructions[k]>>)[1]]
  IN  [instructions |-> Remove(advanced, completed), fetched |-> f.fetched,
       skipped |-> f.skipped, completed |-> completed]

\* step_pipeline: [instructions, fetched, skipped, completed]
step_pipeline(instrs) ==
  LET completed == Names(Completed(instrs))
      f         == Fetch(Advance(instrs))
  IN  [instructions |-> Remove(f.instructions, completed), fetched |-> f.fetched,
       skipped |-> f.skipped, completed |-> completed]

\* the steps since each instruction present entered IF, after a step that
\* put `fetched` in IF and removed `completed`
Aged(a, fetched, completed) ==
  LET present == (DOMAIN a \ NameSet(completed)) \cup fetched
  IN  IF present = {} THEN <<>>
      ELSE [n \in present |-> IF n \in fetched THEN 0 ELSE a[n] + 1]

\* choice 1 of main: the user adds an instruction
AddInstruction(instr_str) ==
  /\ i_number <= MaxAdds
  /\ \E a \in {add_instruction(instructions, i_number, instr_str)} :
        /\ instructions' = a.instructions
        /\ i_number' = a.i_number
  /\ fresh_add' = TRUE
  /\ plast' = PLast("add", FALSE, {}, FALSE, <<>>)
  /\ UNCHANGED <<age, done>>
  /\ UNCHANGED cpu_vars

\* choice 2 of main: the user steps the pipeline
StepPipeline ==
  /\ \E st \in {step_pipeline(instructions)} :
        /\ instructions' = st.instructions
        /\ age' = Aged(age, st.fetched, st.completed)
        /\ done' = done \o st.completed
        /\ plast' = PLast("step", FALSE, st.fetched, st.skipped, st.completed)
  /\ fresh_add' = FALSE
  /\ UNCHANGED i_number
  /\ UNCHANGED cpu_vars

NextPipeline ==
  \/ \E instr_str \in InstrStrs : AddInstruction(instr_str)
  \/ StepPipeline

SpecPipeline == Init /\ [][NextPipeline]_vars

\* the user keeps stepping
LivePipeline == SpecPipeline /\ WF_vars(StepPipeline)

\* ------------------------------------------------------------------------
\* src/proj1.py: Instruction and Pipeline
\* ------------------------------------------------------------------------
\* Instruction.__init__; the name "Instruction<n>" is kept as the number n
proj1_Instruction(name) == [name |-> name, stage_count |-> 0]

\* add_instruction without the test of the IF stage
proj1_add_instruction_NoHazardTest(instrs, n) ==
  [refused |-> FALSE, instructions |-> Append(instrs, proj1_Instruction(n)),
   i_number |-> n + 1]

\* add_instruction: [refused, instructions, i_number]
proj1_add_instruction(instrs, n) ==
  IF \E k \in 1..Len(instrs) : instrs[k].stage_count = 0
  THEN [refused |-> TRUE, instructions |-> instrs, i_number |-> n]
  ELSE [refused |-> FALSE, instructions |-> Append(instrs, proj1_Instruction(n)),
        i_number |-> n + 1]

\* the first loop of step_pipeline
RECURSIVE proj1_Advance(_)
proj1_Advance(instrs) ==
  IF instrs = <<>> THEN <<>>
  ELSE LET i == Head(instrs)
       IN  <<IF i.stage_count < 4 THEN [i EXCEPT !.stage_count = @ + 1] ELSE i>>
           \o proj1_Advance(Tail(instrs))

\* step_pipeline: [instructions, completed]
proj1_step_pipeline(instrs) ==
  LET advanced  == proj1_Advance(instrs)
      completed == Names(SelectSeq(advanced, LAMBDA i : i.stage_count = 4))
  IN  [instructions |-> Remove(advanced, completed), completed |-> completed]

\* choice 1 of main: the user adds an instruction
Proj1AddInstruction ==
  /\ i_number <= MaxAdds
  /\ \E a \in {proj1_add_instruction(instructions, i_number)} :
        /\ instructions' = a.instructions
        /\ i_number' = a.i_number
        /\ age' = IF a.refused THEN age ELSE (i_number :> 0) @@ age
        /\ fresh_add' = IF a.refused THEN fresh_add ELSE TRUE
        /\ plast' = PLast("add", a.refused, {}, FALSE, <<>>)
  /\ UNCHANGED done
  /\ UNCHANGED cpu_vars

\* choice 2 of main: the user steps the pipeline
Proj1StepPipeline ==
  /\ \E st \in {proj1_step_pipeline(instructions)} :
        /\ instructions' = st.instructions
        /\ age' = Aged(age, {}, st.completed)
        /\ done' = done \o st.completed
        /\ plast' = PLast("step", FALSE, {}, FALSE, st.completed)
  /\ fresh_add' = FALSE
  /\ UNCHANGED i_number
  /\ UNCHANGED cpu_vars

NextProj1 ==
  \/ Proj1AddInstruction
  \/ Proj1StepPipeline

SpecProj1 == Init /\ [][NextProj1]_vars

\* ------------------------------------------------------------------------
\* Properties
\* ------------------------------------------------------------------------

\* C1: register 0 reads as 0 in every reachable state, whatever the caller
\* wrote and whatever instructions ran, and an operation whose only register
\* write is to index 0 leaves all 33 slots as they were.
C1_ZeroRegister ==
  /\ read(registers, 0) = <<0, 0, 0, 0>>
  /\ (last.written = {0} => registers = last.registers)

\* an addi with target register 0 and a non-zero sum has just executed
C1_Witness ==
  /\ last.op = "cycle" /\ last.fetched
  /\ last.dec.t = "I" /\ last.dec.op = 8 /\ last.dec.rt = 0
  /\ last.dec.imm # 0
  /\ last.written = {0}

\* C2: after write(i, v) with i in 1..31, slot i holds v mod 2^32 (a value
\* in 0..2^32-1 congruent to v) and every other slot is unchanged.
C2_WriteThenRead ==
  (last.op = "write" /\ last.arg \in 1..31) =>
    LET r == read(registers, last.arg)
        v == last.value
    IN  /\ r[1] \in 0..65535 /\ r[2] \in 0..65535 /\ r[3] = 0 /\ r[4] = 0
        /\ r[1] = v[1] /\ r[2] = v[2]
        /\ \A j \in 0..32 : j # last.arg => registers[j] = last.registers[j]

\* register 31 was written with -1 (read back as 0xFFFFFFFF) after a write
\* of 2^32 + 5 had left 5 in it
C2_Witness ==
  /\ last.op = "write" /\ last.arg = 31
  /\ last.value = <<65535, 65535, 65535, -1>>
  /\ last.registers[31] = <<5, 0, 0, 0>>
  /\ read(registers, 31) = <<65535, 65535, 0, 0>>

\* C3: the program counter is a 32-bit unsigned value in every reachable
\* state.
C3_ProgramCounter32Bit ==
  /\ program_counter[1] \in 0..65535 /\ program_counter[2] \in 0..65535
  /\ program_counter[3] = 0 /\ program_counter[4] = 0

\* C4: when a cycle of run() raises, the loop makes no further iteration
\* (the caller has the error) and the 33 registers and the memory are as the
\* faulting cycle found them, i.e. as the last completed cycle left them.
C4_FaultStopsRun ==
  (last.op = "cycle" /\ raised) =>
    /\ cycles_left = 0
    /\ registers = last.registers
    /\ data = last.data

\* a sw raised in a cycle that was not the first, with iterations of the
\* run still to make
C4_Witness ==
  /\ last.op = "cycle" /\ raised /\ last.fetched
  /\ last.dec.t = "I" /\ last.dec.op = 43
  /\ last.cycles_left > 1
  /\ ncycles >= 2
  /\ cycles_left = 0

\* C5: a load_word at the address of the last store_word that returned
\* gives back exactly the 32-bit value stored.
C5_RoundTrip ==
  (/\ last.op = "load_word"
   /\ last.stored.valid
   /\ last.stored.address = last.arg
   /\ last.stored.value[3] = 0 /\ last.stored.value[4] = 0) =>
    /\ ~raised
    /\ last.ret = last.stored.value

\* 0x12345678 stored at -4 and loaded back from -4
C5_Witness ==
  /\ last.op = "load_word"
  /\ last.stored.valid
  /\ last.arg = <<65532, 65535, 65535, -1>>
  /\ last.stored.address = last.arg
  /\ last.stored.value = <<22136, 4660, 0, 0>>
  /\ last.ret = <<22136, 4660, 0, 0>>

\* a = b (mod 2^21)
SameLow21(a, b) == a[1] = b[1] /\ a[2] % 32 = b[2] % 32

\* C6: a word stored at address a is what a load at any address b with the
\* same low 21 bits returns, whether the load is the caller's load_word, an
\* instruction fetch or a lw, and whether the store was the caller's, the
\* loader's or a sw.
C6_Aliasing ==
  /\ (last.op = "load_word" /\ last.stored.valid
        /\ SameLow21(last.arg, last.stored.address)) =>
       (~raised /\ last.ret = last.stored.value)
  /\ (last.op = "cycle" /\ last.stored.valid
        /\ SameLow21(last.pc, last.stored.address)) =>
       (last.fetched /\ last.instr = last.stored.value)
  /\ (last.op = "cycle" /\ last.fetched /\ last.stored.valid
        /\ last.dec.t = "I" /\ last.dec.op = 35
        /\ SameLow21(PyAdd(last.registers[last.dec.rs], FromInt(last.dec.imm)),
                     last.stored.address)) =>
       (~raised /\ (last.dec.rt # 0 => registers[last.dec.rt] = last.stored.value))

\* the word a sw stored at 2^32 + 16 has been fetched from 0x00400010
C6_Witness ==
  /\ last.op = "cycle" /\ last.fetched
  /\ last.stored.valid
  /\ last.stored.address = <<16, 0, 1, 0>>
  /\ last.pc = <<16, 64, 0, 0>>
  /\ last.instr = last.stored.value

\* the low 21 bits of an address
Low21(a) == a[1] + (a[2] % 32) * 65536

\* C7: load_word and store_word (called by the caller, by fetch, by lw or by
\* sw) raise exactly when the low 21 bits of the address plus 3 reach the
\* capacity, and a store_word that raises changes no byte.
C7_Bounds ==
  /\ (last.op \in {"load_word", "store_word"}) =>
       (raised <=> Low21(last.arg) + 3 >= 2097152)
  /\ (last.op = "store_word" /\ raised) => data = last.data
  /\ (last.op = "cycle") =>
       (~last.fetched <=> Low21(last.pc) + 3 >= 2097152)
  /\ (last.op = "cycle" /\ last.fetched) =>
       (raised <=>
          /\ last.dec.t = "I" /\ last.dec.op \in {35, 43}
          /\ Low21(PyAdd(last.registers[last.dec.rs], FromInt(last.dec.imm))) + 3
               >= 2097152)
  /\ (last.op = "cycle" /\ raised) => data = last.data

\* store_word at -3 (low 21 bits 0x1FFFFD) was rejected on a memory that
\* holds data
C7_Witness ==
  /\ last.op = "store_word" /\ raised
  /\ last.arg = <<65533, 65535, 65535, -1>>
  /\ data # <<>>
  /\ data = last.data

\* the memory image the loader leaves of ProgBranch on a fresh memory
BranchImage == StoreWords(Memory, FromInt(TEXT_BASE), ProgBranch).data

\* C8: a beq/bne at address A leaves the program counter at A + 4 when not
\* taken and at A + 4 + 4*imm when taken; in the branch test program (beq
\* with equal operands and offset 2) the two instructions after the beq are
\* skipped and the third one executes.
C8_Branch ==
  /\ (last.op = "cycle" /\ last.fetched /\ last.dec.t = "I"
        /\ last.dec.op \in {4, 5}) =>
       LET equal == last.registers[last.dec.rs] = last.registers[last.dec.rt]
           taken == IF last.dec.op = 4 THEN equal ELSE ~equal
       IN  PySub(program_counter, last.pc) =
             FromInt(IF taken THEN 4 + 4 * last.dec.imm ELSE 4)
  /\ (last.op = "cycle" /\ ncalls = 2 /\ ncycles = 4 /\ data = BranchImage) =>
       /\ registers[10] = <<0, 0, 0, 0>>
       /\ registers[11] = <<0, 0, 0, 0>>
       /\ registers[12] = <<30, 0, 0, 0>>

\* the fourth cycle of the branch test program: the addi after the two
\* skipped ones has executed
C8_Witness ==
  /\ last.op = "cycle" /\ ncalls = 2 /\ ncycles = 4 /\ data = BranchImage
  /\ last.pc = FromInt(TEXT_BASE + 20)
  /\ registers[8] = registers[9]
  /\ registers[12] = <<30, 0, 0, 0>>

\* C9: a j/jal at address A sets the program counter to
\* ((A + 4) & 0xF0000000) | (addr << 2); jal puts A + 4 in register 31 and
\* j changes no register.
C9_Jump ==
  (last.op = "cycle" /\ last.fetched /\ last.dec.t = "J") =>
    LET next == PyAdd(last.pc, FromInt(4))
    IN  /\ program_counter =
             PyOr(PyAnd(next, Word(61440, 0)), PyShl(FromInt(last.dec.addr), 2))
        /\ last.dec.op = 3 =>
             /\ registers[31] = next
             /\ \A j \in 0..32 : j # 31 => registers[j] = last.registers[j]
        /\ last.dec.op = 2 => registers = last.registers

\* C10: a jr on register 31, executed after a jal at address A with no
\* write of register 31 in between, leaves the program counter at A + 4.
C10_CallReturn ==
  (/\ last.op = "cycle" /\ last.fetched
   /\ last.dec.t = "R" /\ last.dec.fn = 8 /\ last.dec.rs = 31
   /\ last.link.valid) =>
    program_counter = PyAdd(last.link.at, FromInt(4))

\* the fields of a 32-bit word, read off its upper and lower half by division
BitFields(w) ==
  LET hi     == w[2]
      lo     == w[1]
      opcode == hi \div 1024
  IN  IF opcode = 0
      THEN [t |-> "R", rs |-> (hi \div 32) % 32, rt |-> hi % 32,
            rd |-> lo \div 2048, sh |-> (lo \div 64) % 32, fn |-> lo % 64]
      ELSE IF opcode \in {2, 3}
      THEN [t |-> "J", op |-> opcode, addr |-> (hi % 1024) * 65536 + lo]
      ELSE [t |-> "I", op |-> opcode, rs |-> (hi \div 32) % 32, rt |-> hi % 32,
            imm |-> IF lo < 32768 THEN lo ELSE lo - 65536]

\* C11: decode is a function of the fetched 32-bit word alone: opcode 0
\* gives the R shape with rs, rt, rd, shamt, funct = bits 25..21, 20..16,
\* 15..11, 10..6, 5..0; opcode 2 or 3 gives the J shape with bits 25..0;
\* any other opcode gives the I shape with rs, rt and the low 16 bits
\* sign-extended (f if f < 0x8000, else f - 0x10000).
C11_Decoder ==
  (last.op = "cycle" /\ last.fetched) =>
      /\ last.instr[3] = 0 /\ last.instr[4] = 0
      /\ last.dec = BitFields(last.instr)
      /\ (last.instr[1] = 65535 /\ last.dec.t = "I" => last.dec.imm = -1)
      /\ (last.instr[1] = 32767 /\ last.dec.t = "I" => last.dec.imm = 32767)

\* the word 0xFFFFFFFF has just been fetched and decoded: I shape, opcode
\* 63, rs = rt = 31, immediate -1
C11_Witness ==
  /\ last.op = "cycle" /\ last.fetched
  /\ last.instr = Word(65535, 65535)
  /\ last.dec = [t |-> "I", op |-> 63, rs |-> 31, rt |-> 31, imm |-> -1]

\* C12: div with a zero rt value raises nothing and changes no register
\* (slot 32 included) and no memory byte, the program counter only moving
\* on by 4; with a non-zero rt value slot 32 receives the integer quotient q
\* of the two unsigned values (q * v2 <= v1 < (q + 1) * v2, within 32 bits)
\* and nothing else changes.
C12_DivByZero ==
  (last.op = "cycle" /\ last.fetched /\ last.dec.t = "R" /\ last.dec.fn = 26) =>
      LET v1 == last.registers[last.dec.rs]
          v2 == last.registers[last.dec.rt]
          q  == registers[32]
      IN  /\ ~raised
          /\ data = last.data
          /\ program_counter = PyAdd(last.pc, FromInt(4))
          /\ \A j \in 0..31 : registers[j] = last.registers[j]
          /\ (v2 = FromInt(0) => q = last.registers[32])
          /\ (v2 # FromInt(0) =>
                /\ q[3] = 0 /\ q[4] = 0
                /\ ~PyLt(v1, PyMul(q, v2))
                /\ PyLt(v1, PyMul(PyAdd(q, FromInt(1)), v2)))

\* a div whose rt value is 0 has just executed while slot 32 held a
\* non-zero value
C12_Witness ==
  /\ last.op = "cycle" /\ last.fetched
  /\ last.dec.t = "R" /\ last.dec.fn = 26
  /\ last.registers[last.dec.rt] = FromInt(0)
  /\ last.registers[32] # FromInt(0)

\* C13: mult puts (v1 * v2) mod 2^32 in slot 32 and nowhere else: registers
\* 0..31 and memory are unchanged, the program counter moves on by 4 and no
\* slot holds the product's bits above bit 31; mflo copies slot 32 into rd.
C13_Mult ==
  /\ (last.op = "cycle" /\ last.fetched /\ last.dec.t = "R" /\ last.dec.fn = 24) =>
        LET product == PyMul(last.registers[last.dec.rs], last.registers[last.dec.rt])
        IN  /\ ~raised
            /\ registers[32] = <<product[1], product[2], 0, 0>>
            /\ \A j \in 0..31 : registers[j] = last.registers[j]
            /\ data = last.data
            /\ program_counter = PyAdd(last.pc, FromInt(4))
  /\ (last.op = "cycle" /\ last.fetched /\ last.dec.t = "R" /\ last.dec.fn = 18) =>
        /\ ~raised
        /\ (last.dec.rd # 0 => registers[last.dec.rd] = last.registers[32])
        /\ \A j \in 0..32 : j # last.dec.rd => registers[j] = last.registers[j]
        /\ data = last.data

\* a mult whose product does not fit 32 bits has just executed
\* (0xFFFFFFFF * 0xFFFFFFFF, slot 32 receives 1)
C13_Witness ==
  /\ last.op = "cycle" /\ last.fetched
  /\ last.dec.t = "R" /\ last.dec.fn = 24
  /\ last.registers[last.dec.rs] = Word(65535, 65535)
  /\ last.registers[last.dec.rt] = Word(65535, 65535)
  /\ registers[32] = FromInt(1)

\* C14: in every reachable state each of the 33 register slots holds a
\* value in 0..2^32-1, whatever instructions were executed (and whatever
\* the caller wrote).
C14_RegisterRange ==
  \A j \in 0..32 :
      /\ registers[j][1] \in 0..65535
      /\ registers[j][2] \in 0..65535
      /\ registers[j][3] = 0
      /\ registers[j][4] = 0

\* an add whose sum is 2^32 or more has just executed (0xFFFFFFFF + 1)
C14_Witness ==
  /\ last.op = "cycle" /\ last.fetched
  /\ last.dec.t = "R" /\ last.dec.fn = 32 /\ last.dec.rd # 0
  /\ PyAdd(last.registers[last.dec.rs], last.registers[last.dec.rt])[3] > 0
  /\ registers[last.dec.rd] = FromInt(0)

\* 0x20080005 0x20090001 0x11000004 0x01280018 0x00004812 0x2108FFFF
\* 0x08100002 stored from 0x00400000 on an all-zero memory
FactorialImage ==
  StoreWords(Memory, FromInt(TEXT_BASE),
             <<Word(8200, 5), Word(8201, 1), Word(4352, 4), Word(296, 24),
               Word(0, 18450), Word(8456, 65535), Word(2064, 2)>>).data

\* C15: on a fresh CPU whose memory holds the seven factorial words at
\* 0x00400000.. and zero elsewhere, once 20 cycles have run register 9 holds
\* 120 and no error was raised.  (Two calls were made, the load and the run,
\* and the program stores nothing, so the memory is still the loaded one.)
C15_Factorial ==
  (/\ ncalls = 2 /\ ncycles = 20
   /\ last.op = "cycle"
   /\ data = FactorialImage) =>
      /\ ~raised
      /\ registers[9] = FromInt(120)

\* run(20) has returned on the fresh CPU loaded with the factorial words
C15_Witness ==
  /\ ncalls = 2 /\ ncycles = 20 /\ cycles_left = 0
  /\ last.op = "cycle" /\ last.cycles_left = 1
  /\ data = FactorialImage
  /\ registers[9] = FromInt(120)
  /\ registers[8] = FromInt(2)

\* bit k of a limb
Bit(a, k) == (a \div 2^k) % 2

\* the two half-words <<low, high>> of (a + b) mod 2^32 and (a - b) mod 2^32
\* for half-word pairs a and b
Sum32(a, b) ==
  <<(a[1] + b[1]) % 65536, (a[2] + b[2] + ((a[1] + b[1]) \div 65536)) % 65536>>
Diff32(a, b) ==
  <<(a[1] - b[1]) % 65536, (a[2] - b[2] + ((a[1] - b[1]) \div 65536)) % 65536>>

\* (a * 2^n) mod 2^32 by doubling n times
RECURSIVE Doubled32(_, _)
Doubled32(a, n) ==
  IF n = 0 THEN <<a[1], a[2]>>
  ELSE Doubled32(<<(2 * a[1]) % 65536, (2 * a[2] + (a[1] \div 32768)) % 65536>>, n - 1)

\* r is the bit-by-bit combination of a and b on 32 bits, f giving the
\* result bit for the sum (0, 1 or 2) of the two operand bits
Bitwise32(r, a, b, f) ==
  \A h \in 1..2 : \A k \in 0..15 : Bit(r[h], k) = f[Bit(a[h], k) + Bit(b[h], k)]

\* C16: with v1, v2 the values of rs and rt before the cycle, add writes
\* (v1 + v2) mod 2^32 to rd, sub (v1 - v2) mod 2^32, sll (v2 * 2^sh) mod
\* 2^32, and / or / xor the bitwise result, nor the 32-bit complement of
\* v1 | v2, and addi writes (v1 + imm) mod 2^32 to rt; none of them raises.
C16_ALU ==
  /\ (last.op = "cycle" /\ last.fetched /\ last.dec.t = "R"
        /\ last.dec.fn \in {32, 34, 0, 36, 37, 38, 39}) =>
        LET v1 == last.registers[last.dec.rs]
            v2 == last.registers[last.dec.rt]
            r  == registers[last.dec.rd]
            fn == last.dec.fn
        IN  /\ ~raised
            /\ last.dec.rd # 0 =>
                  /\ r[3] = 0 /\ r[4] = 0
                  /\ fn = 32 => <<r[1], r[2]>> = Sum32(v1, v2)
                  /\ fn = 34 => <<r[1], r[2]>> = Diff32(v1, v2)
                  /\ fn = 0  => <<r[1], r[2]>> = Doubled32(v2, last.dec.sh)
                  /\ fn = 36 => Bitwise32(r, v1, v2, [n \in 0..2 |-> IF n = 2 THEN 1 ELSE 0])
                  /\ fn = 37 => Bitwise32(r, v1, v2, [n \in 0..2 |-> IF n = 0 THEN 0 ELSE 1])
                  /\ fn = 38 => Bitwise32(r, v1, v2, [n \in 0..2 |-> IF n = 1 THEN 1 ELSE 0])
                  /\ fn = 39 => Bitwise32(r, v1, v2, [n \in 0..2 |-> IF n = 0 THEN 1 ELSE 0])
  /\ (last.op = "cycle" /\ last.fetched /\ last.dec.t = "I" /\ last.dec.op = 8) =>
        LET v1  == last.registers[last.dec.rs]
            imm == last.dec.imm
            r   == registers[last.dec.rt]
        IN  /\ ~raised
            /\ last.dec.rt # 0 =>
                  /\ r[3] = 0 /\ r[4] = 0
                  /\ <<r[1], r[2]>> =
                       Sum32(v1, IF imm >= 0 THEN <<imm, 0>> ELSE <<imm + 65536, 65535>>)

\* nor of 0xFF and 0xF0F has just written 0xFFFFF000
C16_Witness ==
  /\ last.op = "cycle" /\ last.fetched
  /\ last.dec.t = "R" /\ last.dec.fn = 39 /\ last.dec.rd # 0
  /\ last.registers[last.dec.rs] = FromInt(255)
  /\ last.registers[last.dec.rt] = FromInt(3855)
  /\ registers[last.dec.rd] = Word(65535, 61440)

\* C17: slt writes 1 to rd exactly when the stored value of rs is below the
\* stored value of rt as unsigned 32-bit numbers, and 0 otherwise; with
\* 0xFFFFFFFF in rs and 1 in rt it writes 0.
C17_SltUnsigned ==
  (last.op = "cycle" /\ last.fetched /\ last.dec.t = "R" /\ last.dec.fn = 42) =>
      LET v1 == last.registers[last.dec.rs]
          v2 == last.registers[last.dec.rt]
          below == v1[2] < v2[2] \/ (v1[2] = v2[2] /\ v1[1] < v2[1])
      IN  /\ ~raised
          /\ last.dec.rd # 0 =>
                /\ registers[last.dec.rd] = (IF below THEN <<1, 0, 0, 0>> ELSE <<0, 0, 0, 0>>)
                /\ (v1 = Word(65535, 65535) /\ v2 = <<1, 0, 0, 0>>) =>
                      registers[last.dec.rd] = <<0, 0, 0, 0>>

\* slt with 0xFFFFFFFF in rs and 1 in rt has just written 0
C17_Witness ==
  /\ last.op = "cycle" /\ last.fetched
  /\ last.dec.t = "R" /\ last.dec.fn = 42 /\ last.dec.rd # 0
  /\ last.registers[last.dec.rs] = Word(65535, 65535)
  /\ last.registers[last.dec.rt] = <<1, 0, 0, 0>>
  /\ registers[last.dec.rd] = <<0, 0, 0, 0>>

\* C18: a lw whose effective address has the low 21 bits of the effective
\* address of an earlier sw, no store having touched those 4 bytes since,
\* raises nothing and writes into its rt the value the sw's rt held; a sw
\* changes no register.
C18_StoreThenLoad ==
  /\ (last.op = "cycle" /\ last.fetched /\ last.dec.t = "I" /\ last.dec.op = 35) =>
        \A w \in last.sw_words :
            w[1] = Low21(PyAdd(last.registers[last.dec.rs], FromInt(last.dec.imm))) =>
                /\ ~raised
                /\ last.dec.rt # 0 => registers[last.dec.rt] = w[2]
  /\ (last.op = "cycle" /\ last.fetched /\ last.dec.t = "I" /\ last.dec.op = 43) =>
        registers = last.registers

\* sw at 0x1002, then sw at 0x1006, then a lw from 0x1002 has just loaded
\* the first sw's value into register 9
C18_Witness ==
  /\ last.op = "cycle" /\ last.fetched
  /\ last.dec.t = "I" /\ last.dec.op = 35 /\ last.dec.rt = 9
  /\ last.sw_words = {<<4098, FromInt(4098)>>, <<4102, FromInt(4098)>>}
  /\ PyAdd(last.registers[last.dec.rs], FromInt(last.dec.imm)) = FromInt(4098)
  /\ last.registers[9] = FromInt(0)
  /\ registers[9] = FromInt(4098)

\* C19: every memory access a cycle completes (the instruction fetch, a lw,
\* a sw) is at a translated index that is a multiple of 4.
C19_WordAligned ==
  (last.op = "cycle" /\ last.fetched) =>
      /\ Low21(last.pc) % 4 = 0
      /\ (last.dec.t = "I" /\ last.dec.op \in {35, 43} /\ ~raised) =>
            Low21(PyAdd(last.registers[last.dec.rs], FromInt(last.dec.imm))) % 4 = 0

\* C20: a cycle changes slot 32 only if it executes mult, or div with a
\* non-zero rt value; the register fields decode to 0..31 and the only
\* register writes to index 32 are those of mult and div; and every
\* instruction other than mflo has the same effect on registers 0..31, the
\* memory, the program counter and the error whatever slot 32 holds.
C20_AuxRegister ==
  (last.op = "cycle" /\ last.fetched) =>
      LET d     == last.dec
          muldiv == d.t = "R" /\ (d.fn = 24 \/ (d.fn = 26 /\ last.registers[d.rt] # FromInt(0)))
          other == execute(d, [last.registers EXCEPT ![32] = PyXor(@, Word(43690, 21845))],
                           last.data, PyAdd(last.pc, FromInt(4)))
      IN  /\ registers[32] # last.registers[32] => muldiv
          /\ 32 \in last.written => muldiv
          /\ d.t = "R" => d.rs \in 0..31 /\ d.rt \in 0..31 /\ d.rd \in 0..31
          /\ d.t = "I" => d.rs \in 0..31 /\ d.rt \in 0..31
          /\ ~(d.t = "R" /\ d.fn = 18) =>
                /\ other.raised = raised
                /\ other.data = data
                /\ other.program_counter = program_counter
                /\ \A j \in 0..31 : other.registers[j] = registers[j]

\* a div with a non-zero rt value has just changed slot 32
C20_Witness ==
  /\ last.op = "cycle" /\ last.fetched
  /\ last.dec.t = "R" /\ last.dec.fn = 26
  /\ last.registers[last.dec.rt] # FromInt(0)
  /\ registers[32] # last.registers[32]
  /\ last.written = {32}

\* C21: when a lw or sw raises, the program counter is the address of the
\* faulting instruction plus 4; when the fetch raises, the program counter is
\* unchanged; the caller's calls leave the program counter alone, so the
\* first cycle of the next run fetches at the address of the faulting
\* instruction plus 4 and not the faulting instruction again.
C21_FaultProgramCounter ==
  /\ (last.op = "cycle" /\ last.fetched /\ raised) =>
        /\ last.dec.t = "I" /\ last.dec.op \in {35, 43}
        /\ program_counter = PyAdd(last.pc, FromInt(4))
  /\ (last.op = "cycle" /\ ~last.fetched) =>
        /\ raised
        /\ program_counter = last.pc
  /\ (last.op # "cycle") => program_counter = last.pc
  /\ (last.op = "cycle" /\ last.fault.valid) =>
        /\ last.pc = PyAdd(last.fault.at, FromInt(4))
        /\ last.pc # last.fault.at
        /\ Low21(last.pc) # Low21(last.fault.at)

\* the sw at 0x00400004 raised in one run and the first cycle of the next
\* run has executed the addi at 0x00400008
C21_Witness ==
  /\ last.op = "cycle" /\ last.fetched
  /\ last.fault = [valid |-> TRUE, at |-> FromInt(TEXT_BASE + 4)]
  /\ last.pc = FromInt(TEXT_BASE + 8)
  /\ last.dec.t = "I" /\ last.dec.op = 8 /\ last.dec.rt = 10
  /\ registers[10] = FromInt(1)

\* C22: as long as no jr has been executed the program counter is a multiple
\* of 4 in every state and no instruction fetch has raised; a cycle that
\* executes anything but a jr from a program counter that is a multiple of 4
\* leaves it a multiple of 4.
C22_AlignedWithoutJr ==
  /\ ~jr_executed =>
        /\ program_counter[1] % 4 = 0
        /\ last.op = "cycle" => (last.fetched /\ Low21(last.pc) + 3 < Capacity)
  /\ (/\ last.op = "cycle" /\ last.fetched
      /\ ~(last.dec.t = "R" /\ last.dec.fn = 8)
      /\ last.pc[1] % 4 = 0) => program_counter[1] % 4 = 0

\* no jr has been executed and, after j 0x0FFFFFFC, the word at the last
\* word-aligned index of the memory (0x1FFFFC) has been fetched
C22_Witness ==
  /\ ~jr_executed
  /\ last.op = "cycle" /\ last.fetched
  /\ last.pc = Word(4095, 65532)
  /\ Low21(last.pc) = Capacity - 4
  /\ program_counter = Word(4096, 0)

\* the function codes and the I-shape opcodes that have an effect:
\* 0x20 0x22 0x00 0x2A 0x26 0x25 0x27 0x24 0x08 0x18 0x1A 0x12 and
\* 0x08 0x23 0x2B 0x04 0x05
ImplementedFunct  == {32, 34, 0, 42, 38, 37, 39, 36, 8, 24, 26, 18}
ImplementedOpcode == {8, 35, 43, 4, 5}

\* C23: a cycle whose word decodes to an R shape with a function code
\* outside ImplementedFunct, or to an I shape with an opcode outside
\* ImplementedOpcode, raises nothing and changes no register and no memory
\* byte, the program counter moving on by 4; a cycle that fetches the
\* all-zero word does the same.
C23_UnimplementedNoOp ==
  (last.op = "cycle" /\ last.fetched) =>
      LET d    == last.dec
          noop == \/ d.t = "R" /\ d.fn \notin ImplementedFunct
                  \/ d.t = "I" /\ d.op \notin ImplementedOpcode
                  \/ last.instr = <<0, 0, 0, 0>>
      IN  noop =>
            /\ ~raised
            /\ registers = last.registers
            /\ data = last.data
            /\ program_counter = PyAdd(last.pc, FromInt(4))
            /\ cycles_left = last.cycles_left - 1

\* the word 0x03FFFFFF (R shape, function code 0x3F, rs = rt = rd = 31) has
\* just been executed with 0x7FFF in register 31
C23_Witness ==
  /\ last.op = "cycle" /\ last.fetched
  /\ last.dec.t = "R" /\ last.dec.fn = 63 /\ last.dec.rd = 31
  /\ last.registers[31] = FromInt(32767)
  /\ registers[31] = FromInt(32767)

\* the positions of a list whose instruction is in a stage (counter 0..3)
InStage(instrs) == {k \in 1..Len(instrs) : instrs[k].stage_count >= 0}

\* C24 (src/pipeline.py): between calls every instruction has a stage
\* counter in -1..3, the fetched ones (0..3) have pairwise distinct counters
\* (so at most 4 are in flight), and along the list the fetched instructions
\* come before the unfetched ones, with strictly decreasing counters.
C24_StageCounters ==
  LET n == Len(instructions)
      c == [k \in 1..n |-> instructions[k].stage_count]
  IN  /\ \A k \in 1..n : c[k] \in -1..3
      /\ \A j, k \in InStage(instructions) : j # k => c[j] # c[k]
      /\ Cardinality(InStage(instructions)) <= 4
      /\ \A j, k \in 1..n : (j < k /\ c[j] = -1) => c[k] = -1
      /\ \A j, k \in InStage(instructions) : j < k => c[j] > c[k]

\* four instructions are in WB, EX, ID and IF and two more wait unfetched
C24_Witness ==
  /\ Len(instructions) = 6
  /\ [k \in 1..6 |-> instructions[k].stage_count] = <<3, 2, 1, 0, -1, -1>>
  /\ plast.op = "step"

\* C25 (src/pipeline.py): a step_pipeline call that finds an unfetched
\* instruction never takes the hazard branch and fetches exactly the oldest
\* unfetched one; an instruction is removed by the 4th step after the step
\* that fetched it and not before; instructions complete in the order they
\* were added; and, the user stepping again and again, a state in which
\* every instruction added so far has completed is reached again and again
\* (the name counter and the list of completed names only grow, so every
\* instruction added is eventually completed).
C25_Progress ==
  /\ [](plast.op = "step" =>
          LET before    == plast.instructions
              unfetched == {k \in 1..Len(before) : before[k].stage_count = -1}
          IN  /\ ~plast.skipped
              /\ unfetched = {} => plast.fetched = {}
              /\ unfetched # {} =>
                    LET first == CHOOSE k \in unfetched : \A j \in unfetched : k <= j
                    IN  /\ plast.fetched = {before[first].name}
                        /\ \E k \in 1..Len(instructions) :
                              /\ instructions[k].name = before[first].name
                              /\ instructions[k].stage_count = 0
                        /\ \A k \in 1..Len(instructions) :
                              instructions[k].stage_count = -1 <=>
                                \E j \in unfetched \ {first} :
                                    before[j].name = instructions[k].name
              /\ NameSet(plast.completed) =
                    {n \in DOMAIN plast.age : plast.age[n] = 3})
  /\ [](/\ \A n \in DOMAIN age : age[n] \in 0..3
        /\ DOMAIN age = {instructions[k].name : k \in InStage(instructions)}
        /\ \A k \in 1..Len(done) : done[k] = k)
  /\ []<>(NameSet(done) = 1..(i_number - 1))

\* a step has just fetched the oldest of two unfetched instructions while
\* the IF stage was occupied before the step, and two instructions have
\* completed
C25_Witness ==
  /\ plast.op = "step"
  /\ \E k \in 1..Len(plast.instructions) : plast.instructions[k].stage_count = 0
  /\ Cardinality({k \in 1..Len(plast.instructions) :
                     plast.instructions[k].stage_count = -1}) = 2
  /\ plast.fetched # {}
  /\ ~plast.skipped
  /\ done = <<1, 2>>

\* C26 (src/proj1.py): add_instruction is refused exactly when some
\* instruction has stage counter 0, which is exactly when an add was
\* accepted and no step_pipeline has run since; a refused add leaves the
\* list and the name counter unchanged and an accepted one appends one
\* instruction at counter 0; between calls the counters are pairwise
\* distinct and in 0..3 and at most 4 instructions are present; and an
\* instruction is removed by the 4th step_pipeline after its add and not
\* before.
C26_AddTimeHazard ==
  LET n == Len(instructions)
  IN  /\ plast.op = "add" =>
            /\ plast.refused <=>
                  \E k \in 1..Len(plast.instructions) :
                      plast.instructions[k].stage_count = 0
            /\ plast.refused <=> plast.fresh_add
            /\ plast.refused =>
                  (instructions = plast.instructions /\ i_number = plast.i_number)
            /\ ~plast.refused =>
                  /\ instructions =
                        Append(plast.instructions,
                               [name |-> plast.i_number, stage_count |-> 0])
                  /\ i_number = plast.i_number + 1
      /\ \A k \in 1..n : instructions[k].stage_count \in 0..3
      /\ \A j, k \in 1..n :
            j # k => instructions[j].stage_count # instructions[k].stage_count
      /\ n <= 4
      /\ DOMAIN age = {instructions[k].name : k \in 1..n}
      /\ \A m \in DOMAIN age : age[m] \in 0..3
      /\ plast.op = "step" =>
            NameSet(plast.completed) = {m \in DOMAIN plast.age : plast.age[m] = 3}

\* an add has just been refused with four instructions present (counters
\* 3, 2, 1, 0), one instruction having completed before
C26_Witness ==
  /\ plast.op = "add" /\ plast.refused
  /\ Len(instructions) = 4
  /\ [k \in 1..4 |-> instructions[k].stage_count] = <<3, 2, 1, 0>>
  /\ done = <<1>>
  /\ i_number = 6

====
